---- MODULE Spec2Model ----
(***************************************************************************)
(* A model of the neshan-rs client (src/src/lib.rs): construction of the   *)
(* Client, the two operations route and reverse_geocode, the query each    *)
(* one sends, and the decoding of the response by status.                  *)
(*                                                                         *)
(* Conventions of the model:                                               *)
(*   - an f64 is a fixed-point number counted in tenths (35.7 is 357), so  *)
(*     that formatting and parsing are real conversions;                   *)
(*   - text that the code formats or the peer parses (query values, the    *)
(*     API key) is a sequence of one-character strings (the key: a         *)
(*     sequence of byte values); other text is an opaque string;           *)
(*   - a JSON body is a tagged tree: [t |-> "obj", o |-> record],          *)
(*     [t |-> "arr", a |-> sequence], [t |-> "str", s |-> ...],            *)
(*     [t |-> "int", n |-> ...] (a literal without fraction),              *)
(*     [t |-> "float", tenths |-> ...] (a literal with a fraction),        *)
(*     [t |-> "bool", b |-> ...], [t |-> "null"], and [t |-> "malformed"]  *)
(*     for bytes that are no JSON at all.                                  *)
(***************************************************************************)
EXTENDS Integers, Sequences, FiniteSets, TLC

VARIABLES
    client,     \* the Client the caller holds, or NoClient
    lastNew,    \* the last call of Client::new: its key and how it ended
    pc,         \* pc[c]: where call c is: "idle", "send", "body", "done"
    op,         \* op[c]: "route", "reverse_geocode" or "none"
    args,       \* args[c]: the arguments of call c
    req,        \* req[c]: the request call c handed to the transport
    gets,       \* gets[c]: the GETs call c has sent in this invocation
    status,     \* status[c]: the HTTP status of the response, 0 before it
    body,       \* body[c]: the response body as received
    result      \* result[c]: what the call returned

vars == <<client, lastNew, pc, op, args, req, gets, status, body, result>>

(***************************************************************************)
(* Bounds of the model.                                                    *)
(***************************************************************************)
NCalls == 2
MaxKeyLen == 2

Calls == 1..NCalls

(***************************************************************************)
(* Values of the program.                                                  *)
(***************************************************************************)

\* Option<String>: None is the empty sequence, Some(s) the sequence <<s>>.
None == <<>>
Some(s) == <<s>>

\* enum Type.
Type == {"Car", "Motorcycle"}

\* struct Point, with two f64 fields (counted in tenths).
Point(lat, lon) == [latitude |-> lat, longitude |-> lon]

\* No Client has been built, or the one built was never returned.
NoClient == [built |-> FALSE, api_key |-> <<>>, user_agent |-> ""]

(***************************************************************************)
(* Formatting: Display for Type, bool and f64, and format!("{},{}").       *)
(***************************************************************************)

Digits == <<"0", "1", "2", "3", "4", "5", "6", "7", "8", "9">>

\* The decimal digits of a natural number, most significant first.
RECURSIVE FmtNat(_)
FmtNat(n) ==
    IF n < 10 THEN <<Digits[n + 1]>>
    ELSE FmtNat(n \div 10) \o <<Digits[(n % 10) + 1]>>

\* Display for f64: a sign when negative, the integer part, and the fraction
\* only when there is one (35.0 prints as "35", -0.5 as "-0.5").
FmtF64(x) ==
    LET a == IF x < 0 THEN -x ELSE x
    IN  (IF x < 0 THEN <<"-">> ELSE <<>>)
        \o FmtNat(a \div 10)
        \o (IF a % 10 = 0 THEN <<>> ELSE <<".", Digits[(a % 10) + 1]>>)

\* bool::to_string.
FmtBool(b) == IF b THEN <<"t", "r", "u", "e">> ELSE <<"f", "a", "l", "s", "e">>

\* impl fmt::Display for Type.
FmtType(v) ==
    CASE v = "Car" -> <<"c", "a", "r">>
      [] v = "Motorcycle" -> <<"m", "o", "t", "o", "r", "c", "y", "c", "l", "e">>

\* format!("{},{}", p.latitude, p.longitude).
FmtLatLon(p) == FmtF64(p.latitude) \o <<",">> \o FmtF64(p.longitude)

(***************************************************************************)
(* RequestBuilder::query: every value is written into the URL in the       *)
(* application/x-www-form-urlencoded form.                                 *)
(***************************************************************************)

Unreserved ==
    {"a", "b", "c", "d", "e", "f", "g", "h", "i", "j", "k", "l", "m", "n", "o",
     "p", "q", "r", "s", "t", "u", "v", "w", "x", "y", "z",
     "0", "1", "2", "3", "4", "5", "6", "7", "8", "9", "*", "-", ".", "_"}

\* One character of a value as it appears in the URL.
EncodeChar(c) ==
    IF c \in Unreserved THEN <<c>>
    ELSE IF c = " " THEN <<"+">>
    ELSE CASE c = "," -> <<"%", "2", "C">>

RECURSIVE UrlEncode(_)
UrlEncode(s) ==
    IF s = <<>> THEN <<>> ELSE EncodeChar(Head(s)) \o UrlEncode(Tail(s))

\* One (key, value) pair of the slice handed to .query().
Param(k, v) == [k |-> k, v |-> UrlEncode(v)]


\* RouteQuery with the two coordinates of each point in the other order.
RouteQueryLonLat(a) ==
    LET FmtLonLat(p) == FmtF64(p.longitude) \o <<",">> \o FmtF64(p.latitude)
    IN  << Param("type", FmtType(a.vehicle)),
           Param("origin", FmtLonLat(a.origin)),
           Param("destination", FmtLonLat(a.destination)),
           Param("avoid_traffic_zone", FmtBool(a.avoid_traffic_zone)),
           Param("avoid_odd_event_zone", FmtBool(a.avoid_odd_even_zone)),
           Param("alternative", FmtBool(a.alternative_paths)) >>

\* The query of Client::route.
RouteQuery(a) ==
    << Param("type", FmtType(a.vehicle)),
       Param("origin", FmtLatLon(a.origin)),
       Param("destination", FmtLatLon(a.destination)),
       Param("avoid_traffic_zone", FmtBool(a.avoid_traffic_zone)),
       Param("avoid_odd_event_zone", FmtBool(a.avoid_odd_even_zone)),
       Param("alternative", FmtBool(a.alternative_paths)) >>

\* The query of Client::reverse_geocode.
ReverseQuery(a) ==
    << Param("lat", FmtF64(a.point.latitude)),
       Param("lng", FmtF64(a.point.longitude)) >>

\* The GET a call hands to the transport: the URL, the query, and the default
\* headers and user agent the Client was built with.
Request(cl, url, query) ==
    [method |-> "GET", url |-> url, query |-> query,
     api_key |-> cl.api_key, user_agent |-> cl.user_agent]

NoRequest == [method |-> "", url |-> "", query |-> <<>>,
              api_key |-> <<>>, user_agent |-> ""]

(***************************************************************************)
(* Response::json::<T>(): serde_json's reading of the body into the        *)
(* derived Deserialize of each struct.  A decoder yields Parsed(v) or      *)
(* Invalid.                                                                *)
(***************************************************************************)

Parsed(v) == [ok |-> TRUE, v |-> v]
Invalid == [ok |-> FALSE, v |-> <<>>]

\* The range of an i32.
I32Max == 2147483647
I32Min == (-I32Max) - 1

\* What a struct's field reads when the body has no such key.
Missing == [t |-> "missing"]

\* A struct is read from a JSON object by field name (unknown keys are
\* ignored), or from a JSON array of exactly its fields, in declaration order.
IsStructShape(j, fields) ==
    \/ j.t = "obj"
    \/ j.t = "arr" /\ Len(j.a) = Len(fields)

Field(j, fields, name) ==
    IF j.t = "obj"
    THEN IF name \in DOMAIN j.o THEN j.o[name] ELSE Missing
    ELSE j.a[CHOOSE i \in 1..Len(fields) : fields[i] = name]

\* String.
DeString(j) == IF j.t = "str" THEN Parsed(j.s) ELSE Invalid

\* bool.
DeBool(j) == IF j.t = "bool" THEN Parsed(j.b) ELSE Invalid

\* f64: any JSON number, an integer literal included.
DeF64(j) ==
    IF j.t = "int" THEN Parsed(j.n * 10)
    ELSE IF j.t = "float" THEN Parsed(j.tenths)
    ELSE Invalid

\* i32: an integer literal in range; a literal with a fraction is refused.
DeI32(j) ==
    IF j.t = "int" /\ I32Min <= j.n /\ j.n <= I32Max THEN Parsed(j.n) ELSE Invalid


\* DeOptString with an absent key read as the empty string.
DeOptStringEmpty(j) ==
    IF j.t = "missing" THEN Parsed(Some(""))
    ELSE IF j.t = "null" THEN Parsed(None)
    ELSE IF j.t = "str" THEN Parsed(Some(j.s))
    ELSE Invalid

\* Option<String>: an absent key and null are None.
DeOptString(j) ==
    IF j.t \in {"missing", "null"} THEN Parsed(None)
    ELSE IF j.t = "str" THEN Parsed(Some(j.s))
    ELSE Invalid

ValueTextFields == <<"value", "text">>

\* struct Duration and struct Distance: { value: f64, text: String }.
DeValueText(j) ==
    IF ~IsStructShape(j, ValueTextFields) THEN Invalid
    ELSE LET value == DeF64(Field(j, ValueTextFields, "value"))
             text == DeString(Field(j, ValueTextFields, "text"))
         IN  IF value.ok /\ text.ok
             THEN Parsed([value |-> value.v, text |-> text.v])
             ELSE Invalid

DeDuration(j) == DeValueText(j)
DeDistance(j) == DeValueText(j)

LegFields == <<"summary", "duration", "distance">>


\* DeLeg with duration and distance each read from the other's key.
DeLegSwapped(j) ==
    IF ~IsStructShape(j, LegFields) THEN Invalid
    ELSE LET summary == DeString(Field(j, LegFields, "summary"))
             duration == DeDuration(Field(j, LegFields, "distance"))
             distance == DeDistance(Field(j, LegFields, "duration"))
         IN  IF summary.ok /\ duration.ok /\ distance.ok
             THEN Parsed([summary |-> summary.v, duration |-> duration.v,
                          distance |-> distance.v])
             ELSE Invalid

\* struct Leg.
DeLeg(j) ==
    IF ~IsStructShape(j, LegFields) THEN Invalid
    ELSE LET summary == DeString(Field(j, LegFields, "summary"))
             duration == DeDuration(Field(j, LegFields, "duration"))
             distance == DeDistance(Field(j, LegFields, "distance"))
         IN  IF summary.ok /\ duration.ok /\ distance.ok
             THEN Parsed([summary |-> summary.v, duration |-> duration.v,
                          distance |-> distance.v])
             ELSE Invalid

\* Vec<Leg>: every element, in order.
DeVecLeg(j) ==
    IF j.t # "arr" THEN Invalid
    ELSE LET rs == [i \in 1..Len(j.a) |-> DeLeg(j.a[i])]
         IN  IF \A i \in 1..Len(j.a) : rs[i].ok
             THEN Parsed([i \in 1..Len(j.a) |-> rs[i].v])
             ELSE Invalid

\* struct Route.
DeRoute(j) ==
    IF ~IsStructShape(j, <<"legs">>) THEN Invalid
    ELSE LET legs == DeVecLeg(Field(j, <<"legs">>, "legs"))
         IN  IF legs.ok THEN Parsed([legs |-> legs.v]) ELSE Invalid

\* Vec<Route>: every element, in order.
DeVecRoute(j) ==
    IF j.t # "arr" THEN Invalid
    ELSE LET rs == [i \in 1..Len(j.a) |-> DeRoute(j.a[i])]
         IN  IF \A i \in 1..Len(j.a) : rs[i].ok
             THEN Parsed([i \in 1..Len(j.a) |-> rs[i].v])
             ELSE Invalid

\* struct Routes.
DeRoutes(j) ==
    IF ~IsStructShape(j, <<"routes">>) THEN Invalid
    ELSE LET routes == DeVecRoute(Field(j, <<"routes">>, "routes"))
         IN  IF routes.ok THEN Parsed([routes |-> routes.v]) ELSE Invalid

ErrorFields == <<"code", "message">>

\* struct Error.
DeError(j) ==
    IF ~IsStructShape(j, ErrorFields) THEN Invalid
    ELSE LET code == DeI32(Field(j, ErrorFields, "code"))
             message == DeString(Field(j, ErrorFields, "message"))
         IN  IF code.ok /\ message.ok
             THEN Parsed([code |-> code.v, message |-> message.v])
             ELSE Invalid

PostalAddressFields ==
    <<"formatted_address", "route_name", "neighbourhood", "city", "state",
      "place", "municipality_zone", "in_traffic_zone", "in_odd_even_zone">>

\* struct PostalAddress.
DePostalAddress(j) ==
    IF ~IsStructShape(j, PostalAddressFields) THEN Invalid
    ELSE LET F(name) == Field(j, PostalAddressFields, name)
             formatted_address == DeString(F("formatted_address"))
             route_name == DeString(F("route_name"))
             neighbourhood == DeOptString(F("neighbourhood"))
             city == DeString(F("city"))
             state == DeString(F("state"))
             place == DeOptString(F("place"))
             municipality_zone == DeOptString(F("municipality_zone"))
             in_traffic_zone == DeBool(F("in_traffic_zone"))
             in_odd_even_zone == DeBool(F("in_odd_even_zone"))
         IN  IF /\ formatted_address.ok /\ route_name.ok /\ neighbourhood.ok
                /\ city.ok /\ state.ok /\ place.ok /\ municipality_zone.ok
                /\ in_traffic_zone.ok /\ in_odd_even_zone.ok
             THEN Parsed([formatted_address |-> formatted_address.v,
                          route_name |-> route_name.v,
                          neighbourhood |-> neighbourhood.v,
                          city |-> city.v,
                          state |-> state.v,
                          place |-> place.v,
                          municipality_zone |-> municipality_zone.v,
                          in_traffic_zone |-> in_traffic_zone.v,
                          in_odd_even_zone |-> in_odd_even_zone.v])
             ELSE Invalid

(***************************************************************************)
(* What a call returns: Result<T, Box<dyn std::error::Error>>.  The boxed  *)
(* error is the crate's Error (err = "service") or a reqwest::Error, of    *)
(* the sending (err = "transport") or of the decoding (err = "decode").    *)
(***************************************************************************)

Ok(v) == [ok |-> TRUE, err |-> "none", val |-> v]
ErrService(e) == [ok |-> FALSE, err |-> "service", val |-> e]
ErrDecode == [ok |-> FALSE, err |-> "decode", val |-> <<>>]
ErrTransport == [ok |-> FALSE, err |-> "transport", val |-> <<>>]
NoResult == [ok |-> FALSE, err |-> "pending", val |-> <<>>]
NoArgs == <<>>
NoBody == [t |-> "none"]


\* IsSuccess with 200 as the only success.
IsSuccessOnly200(s) == s = 200

\* StatusCode::is_success: the 2xx range.
IsSuccess(s) == 200 <= s /\ s < 300


\* RouteResult in the error_for_status style: a status that is no success
\* becomes the transport's own error, and the body is not read.
RouteResultErrorForStatus(s, b) ==
    IF ~IsSuccess(s) THEN ErrTransport
    ELSE LET routes == DeRoutes(b)
         IN  IF routes.ok THEN Ok(routes.v) ELSE ErrDecode

\* The tail of Client::route, from the status check to the return.
RouteResult(s, b) ==
    IF ~IsSuccess(s)
    THEN LET err == DeError(b)
         IN  IF err.ok THEN ErrService(err.v) ELSE ErrDecode
    ELSE LET routes == DeRoutes(b)
         IN  IF routes.ok THEN Ok(routes.v) ELSE ErrDecode


\* ReverseGeocodeResult with a default value in place of a decoding failure.
ReverseGeocodeResultOrDefault(s, b) ==
    IF ~IsSuccess(s)
    THEN LET err == DeError(b)
         IN  ErrService(IF err.ok THEN err.v ELSE [code |-> 0, message |-> ""])
    ELSE LET postal_address == DePostalAddress(b)
         IN  Ok(IF postal_address.ok THEN postal_address.v
                ELSE [formatted_address |-> "", route_name |-> "",
                      neighbourhood |-> None, city |-> "", state |-> "",
                      place |-> None, municipality_zone |-> None,
                      in_traffic_zone |-> FALSE, in_odd_even_zone |-> FALSE])

\* The tail of Client::reverse_geocode, from the status check to the return.
ReverseGeocodeResult(s, b) ==
    IF ~IsSuccess(s)
    THEN LET err == DeError(b)
         IN  IF err.ok THEN ErrService(err.v) ELSE ErrDecode
    ELSE LET postal_address == DePostalAddress(b)
         IN  IF postal_address.ok THEN Ok(postal_address.v) ELSE ErrDecode

(***************************************************************************)
(* Client::new.                                                            *)
(***************************************************************************)

\* HeaderValue::from_str accepts a tab and every byte from 32 up, DEL excepted.
IsValidHeaderValue(key) ==
    \A i \in 1..Len(key) : (key[i] >= 32 /\ key[i] # 127) \/ key[i] = 9


\* New with the key taken as it is, whatever its bytes.
NewUnchecked(key, builds) ==
    /\ ~client.built
    /\ IF builds
       THEN /\ client' = [built |-> TRUE, api_key |-> key, user_agent |-> "neshan-rs"]
            /\ lastNew' = [key |-> key, outcome |-> "returned"]
       ELSE /\ client' = client
            /\ lastNew' = [key |-> key, outcome |-> "panicked"]
    /\ UNCHANGED <<pc, op, args, req, gets, status, body, result>>

\* Client::new(api_key).  The two unwrap()s panic: on a key that is no header
\* value, and when the transport cannot be built (builds is the environment's
\* answer).  A panic returns no Client.
New(key, builds) ==
    /\ ~client.built
    /\ IF IsValidHeaderValue(key) /\ builds
       THEN /\ client' = [built |-> TRUE, api_key |-> key, user_agent |-> "neshan-rs"]
            /\ lastNew' = [key |-> key, outcome |-> "returned"]
       ELSE /\ client' = client
            /\ lastNew' = [key |-> key, outcome |-> "panicked"]
    /\ UNCHANGED <<pc, op, args, req, gets, status, body, result>>

(***************************************************************************)
(* Client::route and Client::reverse_geocode, step by step: the request   *)
(* is built and sent, send() is awaited, the status is looked at, the body *)
(* is awaited and decoded, and the call returns.                           *)
(***************************************************************************)


\* Route behind a lock on the Client: it waits while another call is out.
RouteExclusive(c, a) ==
    /\ client.built
    /\ pc[c] = "idle"
    /\ \A d \in Calls \ {c} : pc[d] \notin {"send", "body"}
    /\ pc' = [pc EXCEPT ![c] = "send"]
    /\ op' = [op EXCEPT ![c] = "route"]
    /\ args' = [args EXCEPT ![c] = a]
    /\ req' = [req EXCEPT ![c] =
                 Request(client, "https://api.neshan.org/v3/direction", RouteQuery(a))]
    /\ gets' = [gets EXCEPT ![c] = @ + 1]
    /\ UNCHANGED <<client, lastNew, status, body, result>>

\* route(...) up to .send(): one GET to the directions endpoint.
Route(c, a) ==
    /\ client.built
    /\ pc[c] = "idle"
    /\ pc' = [pc EXCEPT ![c] = "send"]
    /\ op' = [op EXCEPT ![c] = "route"]
    /\ args' = [args EXCEPT ![c] = a]
    /\ req' = [req EXCEPT ![c] =
                 Request(client, "https://api.neshan.org/v3/direction", RouteQuery(a))]
    /\ gets' = [gets EXCEPT ![c] = @ + 1]
    /\ UNCHANGED <<client, lastNew, status, body, result>>

\* reverse_geocode(point) up to .send(): one GET to the reverse endpoint.
ReverseGeocode(c, a) ==
    /\ client.built
    /\ pc[c] = "idle"
    /\ pc' = [pc EXCEPT ![c] = "send"]
    /\ op' = [op EXCEPT ![c] = "reverse_geocode"]
    /\ args' = [args EXCEPT ![c] = a]
    /\ req' = [req EXCEPT ![c] =
                 Request(client, "https://api.neshan.org/v2/reverse", ReverseQuery(a))]
    /\ gets' = [gets EXCEPT ![c] = @ + 1]
    /\ UNCHANGED <<client, lastNew, status, body, result>>


\* SendErr with one more try before the error is returned.
SendErrRetry(c) ==
    /\ pc[c] = "send"
    /\ IF gets[c] < 2
       THEN /\ gets' = [gets EXCEPT ![c] = @ + 1]
            /\ UNCHANGED <<pc, result>>
       ELSE /\ pc' = [pc EXCEPT ![c] = "done"]
            /\ result' = [result EXCEPT ![c] = ErrTransport]
            /\ UNCHANGED gets
    /\ UNCHANGED <<client, lastNew, op, args, req, status, body>>

\* .send().await? when the transport fails: the error is returned as it is.
SendErr(c) ==
    /\ pc[c] = "send"
    /\ pc' = [pc EXCEPT ![c] = "done"]
    /\ result' = [result EXCEPT ![c] = ErrTransport]
    /\ UNCHANGED <<client, lastNew, op, args, req, gets, status, body>>

\* .send().await? when a response arrives: its status is known, its body is
\* still to be read.
SendOk(c, s) ==
    /\ pc[c] = "send"
    /\ pc' = [pc EXCEPT ![c] = "body"]
    /\ status' = [status EXCEPT ![c] = s]
    /\ UNCHANGED <<client, lastNew, op, args, req, gets, body, result>>

\* route: res.json().await? in the branch the status selects, and the return.
RouteBody(c, b) ==
    /\ pc[c] = "body"
    /\ op[c] = "route"
    /\ pc' = [pc EXCEPT ![c] = "done"]
    /\ body' = [body EXCEPT ![c] = b]
    /\ result' = [result EXCEPT ![c] = RouteResult(status[c], b)]
    /\ UNCHANGED <<client, lastNew, op, args, req, gets, status>>

\* reverse_geocode: res.json().await? in the branch the status selects, and
\* the return.
ReverseGeocodeBody(c, b) ==
    /\ pc[c] = "body"
    /\ op[c] = "reverse_geocode"
    /\ pc' = [pc EXCEPT ![c] = "done"]
    /\ body' = [body EXCEPT ![c] = b]
    /\ result' = [result EXCEPT ![c] = ReverseGeocodeResult(status[c], b)]
    /\ UNCHANGED <<client, lastNew, op, args, req, gets, status>>

\* The caller takes the result; the future is dropped.
Return(c) ==
    /\ pc[c] = "done"
    /\ pc' = [pc EXCEPT ![c] = "idle"]
    /\ op' = [op EXCEPT ![c] = "none"]
    /\ args' = [args EXCEPT ![c] = NoArgs]
    /\ req' = [req EXCEPT ![c] = NoRequest]
    /\ gets' = [gets EXCEPT ![c] = 0]
    /\ status' = [status EXCEPT ![c] = 0]
    /\ body' = [body EXCEPT ![c] = NoBody]
    /\ result' = [result EXCEPT ![c] = NoResult]
    /\ UNCHANGED <<client, lastNew>>

Init ==
    /\ client = NoClient
    /\ lastNew = [key |-> <<>>, outcome |-> "none"]
    /\ pc = [c \in Calls |-> "idle"]
    /\ op = [c \in Calls |-> "none"]
    /\ args = [c \in Calls |-> NoArgs]
    /\ req = [c \in Calls |-> NoRequest]
    /\ gets = [c \in Calls |-> 0]
    /\ status = [c \in Calls |-> 0]
    /\ body = [c \in Calls |-> NoBody]
    /\ result = [c \in Calls |-> NoResult]

(***************************************************************************)
(* The inputs the model draws: keys, arguments, statuses and bodies.       *)
(***************************************************************************)

\* Bytes of an API key: a tab, a newline, a letter and DEL.
KeyBytes == {9, 10, 65, 127}
Keys == UNION {[1..n -> KeyBytes] : n \in 0..MaxKeyLen}

\* The few keys the concurrent calls' Client is built from: a good one and
\* one with a newline.
SomeKeys == {<<65>>, <<65, 10>>}

\* 35.7,51.4 and -0.5,0 and 9,-120.3.
Points == {Point(357, 514), Point(-5, 0), Point(90, -1203)}

RouteArgs ==
    [vehicle : Type, origin : Points, destination : Points,
     avoid_traffic_zone : BOOLEAN, avoid_odd_even_zone : BOOLEAN,
     alternative_paths : BOOLEAN]

ReverseArgs == [point : Points]

\* The few arguments the concurrent calls draw from.
SomeRouteArgs ==
    {[vehicle |-> "Car", origin |-> Point(357, 514), destination |-> Point(-5, 0),
      avoid_traffic_zone |-> TRUE, avoid_odd_even_zone |-> TRUE,
      alternative_paths |-> FALSE],
     [vehicle |-> "Motorcycle", origin |-> Point(-5, 0),
      destination |-> Point(90, -1203),
      avoid_traffic_zone |-> FALSE, avoid_odd_even_zone |-> TRUE,
      alternative_paths |-> TRUE]}

SomeReverseArgs == {[point |-> Point(357, 514)]}

Statuses == {200, 299, 300, 400, 500}
SomeStatuses == {200, 400}

JObj(r) == [t |-> "obj", o |-> r]
JArr(s) == [t |-> "arr", a |-> s]
JStr(s) == [t |-> "str", s |-> s]
JInt(n) == [t |-> "int", n |-> n]
JFloat(k) == [t |-> "float", tenths |-> k]
JBool(b) == [t |-> "bool", b |-> b]
JNull == [t |-> "null"]
Malformed == [t |-> "malformed"]

JValueText(value, text) == JObj([value |-> value, text |-> JStr(text)])

LegExample ==
    JObj([summary |-> JStr("Example Rd"),
          duration |-> JValueText(JInt(600), "10 minutes"),
          distance |-> JValueText(JInt(5000), "5 km")])

\* A leg with fractional values and a key the struct does not have.
LegAzadi ==
    JObj([summary |-> JStr("Azadi St"),
          duration |-> JValueText(JFloat(905), "2 minutes"),
          distance |-> JValueText(JFloat(7002), "700 m"),
          polyline |-> JStr("_p~iF~ps|U")])

LegNoDistance ==
    JObj([summary |-> JStr("Example Rd"),
          duration |-> JValueText(JInt(600), "10 minutes")])

LegTextValue ==
    JObj([summary |-> JStr("Example Rd"),
          duration |-> JValueText(JStr("600"), "10 minutes"),
          distance |-> JValueText(JInt(5000), "5 km")])

\* A leg written as the array of its fields.
LegArray ==
    JArr(<<JStr("Valiasr St"), JArr(<<JInt(60), JStr("1 minute")>>),
           JArr(<<JFloat(1205), JStr("120 m")>>)>>)

JRoute(legs) == JObj([legs |-> JArr(legs)])
JRoutes(routes) == JObj([routes |-> JArr(routes)])

ErrorExample == JObj([code |-> JInt(400), message |-> JStr("Invalid input")])

RouteBodies ==
    {JRoutes(<<JRoute(<<LegExample>>)>>),
     JRoutes(<<JRoute(<<LegExample, LegAzadi>>), JRoute(<<LegAzadi>>)>>),
     JRoutes(<<JRoute(<<LegAzadi, LegExample>>), JRoute(<<>>)>>),
     JRoutes(<<>>),
     JRoutes(<<JRoute(<<LegArray>>)>>),
     JRoutes(<<JRoute(<<LegExample, LegNoDistance>>)>>),
     JRoutes(<<JRoute(<<LegTextValue>>)>>),
     JObj([routes |-> JNull]),
     \* a routes object that is an error object as well
     JObj([routes |-> JArr(<<JRoute(<<LegExample>>)>>),
           code |-> JInt(470), message |-> JStr("CoordinateParseError")])}

ErrorBodies ==
    {ErrorExample,
     JObj([code |-> JInt(-1), message |-> JStr("")]),
     JObj([code |-> JInt(I32Max), message |-> JStr("Too Many Requests"),
           status |-> JStr("ERROR")]),
     JObj([code |-> JFloat(4000), message |-> JStr("Invalid input")]),
     JObj([code |-> JStr("400"), message |-> JStr("Invalid input")]),
     JObj([code |-> JInt(480)]),
     JArr(<<JInt(401), JStr("Unauthorized")>>)}

RequiredAddressFields ==
    {"formatted_address", "route_name", "city", "state",
     "in_traffic_zone", "in_odd_even_zone"}
OptionalAddressFields == {"neighbourhood", "place", "municipality_zone"}

AddressValue(name) ==
    CASE name = "formatted_address" -> JStr("Tehran, Gisha")
      [] name = "route_name" -> JStr("Gisha")
      [] name = "neighbourhood" -> JStr("Ghezel Ghaleh")
      [] name = "city" -> JStr("Tehran")
      [] name = "state" -> JStr("Tehran Province")
      [] name = "place" -> JStr("")
      [] name = "municipality_zone" -> JStr("6")
      [] name = "in_traffic_zone" -> JBool(FALSE)
      [] name = "in_odd_even_zone" -> JBool(TRUE)
      [] OTHER -> JNull

\* An address object with exactly the given keys.
JAddress(names) == JObj([name \in names |-> AddressValue(name)])

AddressBodies ==
    {JAddress(RequiredAddressFields \cup present) :
        present \in SUBSET OptionalAddressFields}
    \cup
    {JAddress((RequiredAddressFields \ {"city"}) \cup OptionalAddressFields),
     \* a null optional field, and a key the struct does not have
     JAddress(RequiredAddressFields \cup {"place", "village"}),
     JObj([JAddress(RequiredAddressFields).o EXCEPT !["in_traffic_zone"] = JStr("no")]),
     JObj([JAddress(RequiredAddressFields \cup {"neighbourhood"}).o
             EXCEPT !["neighbourhood"] = JInt(6)]),
     \* an address object that is an error object as well
     JObj([name \in RequiredAddressFields \cup {"code", "message"} |->
             IF name = "code" THEN JInt(200)
             ELSE IF name = "message" THEN JStr("OK")
             ELSE AddressValue(name)])}

Bodies == RouteBodies \cup ErrorBodies \cup AddressBodies \cup {Malformed}

\* The few bodies the concurrent calls draw from.
SomeBodies ==
    {JRoutes(<<JRoute(<<LegExample>>)>>), ErrorExample,
     JAddress(RequiredAddressFields), Malformed}

(***************************************************************************)
(* The specifications.  Spec: NCalls calls share the Client and interleave *)
(* freely, over a few inputs.  SpecSeq: one call at a time, over all the   *)
(* inputs.                                                                 *)
(***************************************************************************)

Next ==
    \/ \E key \in SomeKeys, builds \in BOOLEAN : New(key, builds)
    \/ \E c \in Calls, a \in SomeRouteArgs : Route(c, a)
    \/ \E c \in Calls, a \in SomeReverseArgs : ReverseGeocode(c, a)
    \/ \E c \in Calls : SendErr(c)
    \/ \E c \in Calls, s \in SomeStatuses : SendOk(c, s)
    \/ \E c \in Calls, b \in SomeBodies : RouteBody(c, b)
    \/ \E c \in Calls, b \in SomeBodies : ReverseGeocodeBody(c, b)
    \/ \E c \in Calls : Return(c)

Spec == Init /\ [][Next]_vars

NextSeq ==
    \/ \E key \in Keys, builds \in BOOLEAN : New(key, builds)
    \/ \E a \in RouteArgs : Route(1, a)
    \/ \E a \in ReverseArgs : ReverseGeocode(1, a)
    \/ SendErr(1)
    \/ \E s \in Statuses : SendOk(1, s)
    \/ \E b \in Bodies : RouteBody(1, b)
    \/ \E b \in Bodies : ReverseGeocodeBody(1, b)
    \/ Return(1)

SpecSeq == Init /\ [][NextSeq]_vars

(***************************************************************************)
(* The peer's reading of a request, used to state what a query contains.   *)
(***************************************************************************)

\* The character a %XX escape stands for.
Unescape(h1, h2) ==
    CASE h1 = "2" /\ h2 = "C" -> ","
      [] h1 = "2" /\ h2 = "0" -> " "
      [] OTHER -> "?"

RECURSIVE UrlDecode(_)
UrlDecode(s) ==
    IF s = <<>> THEN <<>>
    ELSE IF Head(s) = "%" /\ Len(s) >= 3
         THEN <<Unescape(s[2], s[3])>> \o UrlDecode(SubSeq(s, 4, Len(s)))
    ELSE IF Head(s) = "+" THEN <<" ">> \o UrlDecode(Tail(s))
    ELSE <<Head(s)>> \o UrlDecode(Tail(s))

\* The places of a key in a query, and the value of a key that occurs once.
ParamPlaces(q, key) == {i \in 1..Len(q) : q[i].k = key}
ParamValue(q, key) == UrlDecode(q[CHOOSE i \in ParamPlaces(q, key) : TRUE].v)

IsDigit(ch) == \E i \in 1..10 : Digits[i] = ch
DigitValue(ch) == (CHOOSE i \in 1..10 : Digits[i] = ch) - 1

\* The natural number a string of digits writes, or -1.
RECURSIVE ReadNat(_)
ReadNat(s) ==
    IF s = <<>> \/ \E i \in 1..Len(s) : ~IsDigit(s[i]) THEN -1
    ELSE IF Len(s) = 1 THEN DigitValue(s[1])
    ELSE ReadNat(SubSeq(s, 1, Len(s) - 1)) * 10 + DigitValue(s[Len(s)])

\* The number (in tenths) a decimal text writes: [-]digits[.digit].
ReadDecimal(s) ==
    LET neg == s # <<>> /\ Head(s) = "-"
        u == IF neg THEN Tail(s) ELSE s
        dots == {i \in 1..Len(u) : u[i] = "."}
        whole == IF dots = {} THEN u ELSE SubSeq(u, 1, Len(u) - 2)
        frac == IF dots = {} THEN <<"0">> ELSE SubSeq(u, Len(u), Len(u))
        ok == /\ dots \in {{}, {Len(u) - 1}}
              /\ ReadNat(whole) >= 0 /\ ReadNat(frac) >= 0
        v == ReadNat(whole) * 10 + ReadNat(frac)
    IN  [ok |-> ok, v |-> IF ~ok THEN 0 ELSE IF neg THEN -v ELSE v]

\* The pair a "<latitude>,<longitude>" text writes.
ReadLatLon(s) ==
    LET commas == {i \in 1..Len(s) : s[i] = ","}
        at == CHOOSE i \in commas : TRUE
        lat == ReadDecimal(SubSeq(s, 1, at - 1))
        lon == ReadDecimal(SubSeq(s, at + 1, Len(s)))
    IN  IF Cardinality(commas) # 1 THEN [ok |-> FALSE, latitude |-> 0, longitude |-> 0]
        ELSE [ok |-> lat.ok /\ lon.ok, latitude |-> lat.v, longitude |-> lon.v]

\* The query has the key exactly once, and its value writes the point,
\* latitude first.
CarriesPoint(q, key, p) ==
    /\ Cardinality(ParamPlaces(q, key)) = 1
    /\ LET got == ReadLatLon(ParamValue(q, key))
       IN  got.ok /\ got.latitude = p.latitude /\ got.longitude = p.longitude

\* The query has the key exactly once, with the flag as "true" or "false".
CarriesFlag(q, key, flag) ==
    /\ Cardinality(ParamPlaces(q, key)) = 1
    /\ ParamValue(q, key) =
         IF flag THEN <<"t", "r", "u", "e">> ELSE <<"f", "a", "l", "s", "e">>

\* Call c has sent a request of the operation.
Sent(c, operation) == pc[c] # "idle" /\ op[c] = operation

\* Call c has returned after reading a response body.
Answered(c, operation) == pc[c] = "done" /\ op[c] = operation /\ body[c] # NoBody

HttpSuccess(s) == s \in 200..299

(***************************************************************************)
(* C4: the query that route sends has the key avoid_odd_even_zone, with    *)
(* the avoid_odd_even_zone argument rendered as "true" or "false".         *)
(***************************************************************************)
C4_OddEvenZoneKey ==
    \A c \in Calls :
        Sent(c, "route") =>
            CarriesFlag(req[c].query, "avoid_odd_even_zone", args[c].avoid_odd_even_zone)

(***************************************************************************)
(* C5: the query that route sends has exactly one origin and exactly one   *)
(* destination parameter, each "<latitude>,<longitude>" of its own Point,  *)
(* latitude first.                                                         *)
(***************************************************************************)
C5_OriginDestination ==
    \A c \in Calls :
        Sent(c, "route") =>
            /\ CarriesPoint(req[c].query, "origin", args[c].origin)
            /\ CarriesPoint(req[c].query, "destination", args[c].destination)

\* A route request is out whose origin and destination differ in both
\* coordinates, one of them negative and one with a fraction.
C5_Witness ==
    \E c \in Calls :
        /\ Sent(c, "route")
        /\ args[c].origin = Point(-5, 0)
        /\ args[c].destination = Point(90, -1203)
        /\ ParamValue(req[c].query, "origin") = <<"-", "0", ".", "5", ",", "0">>

(***************************************************************************)
(* The bodies the claims speak of, read as JSON and not through a decoder. *)
(***************************************************************************)

HasTyped(j, name, types) ==
    j.t = "obj" /\ name \in DOMAIN j.o /\ j.o[name].t \in types

\* The value (in tenths) of a JSON number.
NumberOf(j) == IF j.t = "int" THEN j.n * 10 ELSE j.tenths

\* A JSON object {code: integer, message: string}.
IsErrorObject(j) == HasTyped(j, "code", {"int"}) /\ HasTyped(j, "message", {"str"})

IsValueTextObject(j) ==
    HasTyped(j, "value", {"int", "float"}) /\ HasTyped(j, "text", {"str"})

IsLegObject(j) ==
    /\ HasTyped(j, "summary", {"str"})
    /\ HasTyped(j, "duration", {"obj"}) /\ IsValueTextObject(j.o.duration)
    /\ HasTyped(j, "distance", {"obj"}) /\ IsValueTextObject(j.o.distance)

IsRouteObject(j) ==
    /\ HasTyped(j, "legs", {"arr"})
    /\ \A i \in 1..Len(j.o.legs.a) : IsLegObject(j.o.legs.a[i])

\* A well-formed routes object.
IsRoutesObject(j) ==
    /\ HasTyped(j, "routes", {"arr"})
    /\ \A i \in 1..Len(j.o.routes.a) : IsRouteObject(j.o.routes.a[i])

\* An address object with every required field, and each optional field
\* absent or a string.
IsAddressObject(j) ==
    /\ \A name \in {"formatted_address", "route_name", "city", "state"} :
          HasTyped(j, name, {"str"})
    /\ \A name \in {"in_traffic_zone", "in_odd_even_zone"} :
          HasTyped(j, name, {"bool"})
    /\ \A name \in OptionalAddressFields :
          name \in DOMAIN j.o => j.o[name].t = "str"

\* The value of a returned struct's field equals the body's.
SameValueText(got, j) ==
    got.value = NumberOf(j.o.value) /\ got.text = j.o.text.s

SameLeg(got, j) ==
    /\ got.summary = j.o.summary.s
    /\ SameValueText(got.duration, j.o.duration)
    /\ SameValueText(got.distance, j.o.distance)

(***************************************************************************)
(* C1: a non-success status with a body that is {code, message} makes      *)
(* route and reverse_geocode fail with a service error carrying exactly    *)
(* that code and that message, and not with a decoding error.              *)
(***************************************************************************)
C1_ServiceError ==
    \A c \in Calls :
        /\ pc[c] = "done"
        /\ body[c] # NoBody
        /\ ~HttpSuccess(status[c])
        /\ IsErrorObject(body[c])
        => /\ ~result[c].ok
           /\ result[c].err = "service"
           /\ result[c].val.code = body[c].o.code.n
           /\ result[c].val.message = body[c].o.message.s

\* The canned case: route has answered status 400 with the body
\* {"code":400,"message":"Invalid input"}.
C1_Witness ==
    \E c \in Calls :
        /\ Answered(c, "route")
        /\ status[c] = 400
        /\ body[c] = ErrorExample
        /\ result[c].err = "service"
        /\ result[c].val.code = 400
        /\ result[c].val.message = "Invalid input"

(***************************************************************************)
(* C2: in both status branches, a body that cannot be decoded as the shape *)
(* of the branch makes the call fail with a decoding failure, which is no  *)
(* service error, and no successful value is returned from a body that is  *)
(* malformed or lacks a required field.                                    *)
(***************************************************************************)
C2_DecodingFailure ==
    \A c \in Calls :
        pc[c] = "done" /\ body[c] # NoBody =>
            LET decodes ==
                    IF ~HttpSuccess(status[c]) THEN DeError(body[c]).ok
                    ELSE IF op[c] = "route" THEN DeRoutes(body[c]).ok
                    ELSE DePostalAddress(body[c]).ok
            IN  /\ ~decodes =>
                     /\ ~result[c].ok
                     /\ result[c].err = "decode"
                     /\ result[c].err # "service"
                /\ result[c].ok =>
                     /\ body[c].t # "malformed"
                     /\ op[c] = "route" /\ body[c].t = "obj" =>
                            HasTyped(body[c], "routes", {"arr"})
                     /\ op[c] = "reverse_geocode" /\ body[c].t = "obj" =>
                            RequiredAddressFields \subseteq DOMAIN body[c].o
                /\ result[c].err = "service" /\ body[c].t = "obj" =>
                     {"code", "message"} \subseteq DOMAIN body[c].o

\* A malformed body on a 200 and an undecodable error body on a 400 have
\* both been answered with a decoding failure.
C2_Witness ==
    \E c \in Calls :
        /\ pc[c] = "done"
        /\ result[c].err = "decode"
        /\ \/ status[c] = 200 /\ body[c] = Malformed
           \/ status[c] = 400 /\ body[c] = JObj([code |-> JInt(480)])

(***************************************************************************)
(* C3: on a success status with a well-formed routes object, route returns *)
(* the same routes with the same legs in the same order, each leg's        *)
(* summary, duration and distance equal to the body's.                     *)
(***************************************************************************)
C3_RoutesDecoded ==
    \A c \in Calls :
        Answered(c, "route") /\ HttpSuccess(status[c]) /\ IsRoutesObject(body[c]) =>
            /\ result[c].ok
            /\ LET got == result[c].val.routes
                   sent == body[c].o.routes.a
               IN  /\ Len(got) = Len(sent)
                   /\ \A i \in 1..Len(sent) :
                        /\ Len(got[i].legs) = Len(sent[i].o.legs.a)
                        /\ \A k \in 1..Len(sent[i].o.legs.a) :
                             SameLeg(got[i].legs[k], sent[i].o.legs.a[k])

\* The canned body has been returned, and so has a body of two routes with
\* different numbers of legs.
C3_Witness ==
    \E c \in Calls :
        /\ Answered(c, "route")
        /\ HttpSuccess(status[c])
        /\ body[c] = JRoutes(<<JRoute(<<LegExample, LegAzadi>>), JRoute(<<LegAzadi>>)>>)
        /\ result[c].ok
        /\ Len(result[c].val.routes) = 2
        /\ result[c].val.routes[1].legs[1] =
             [summary |-> "Example Rd",
              duration |-> [value |-> 6000, text |-> "10 minutes"],
              distance |-> [value |-> 50000, text |-> "5 km"]]

(***************************************************************************)
(* C9: on a success status with an address object that has every required  *)
(* field and lacks some of neighbourhood, place and municipality_zone,     *)
(* reverse_geocode succeeds, each absent optional field is no value (and   *)
(* not an empty string), and each present field equals the body's.         *)
(***************************************************************************)
C9_OptionalFields ==
    \A c \in Calls :
        /\ Answered(c, "reverse_geocode")
        /\ HttpSuccess(status[c])
        /\ IsAddressObject(body[c])
        => /\ result[c].ok
           /\ \A name \in OptionalAddressFields :
                IF name \in DOMAIN body[c].o
                THEN result[c].val[name] = Some(body[c].o[name].s)
                ELSE result[c].val[name] = None /\ result[c].val[name] # Some("")
           /\ \A name \in {"formatted_address", "route_name", "city", "state"} :
                result[c].val[name] = body[c].o[name].s
           /\ \A name \in {"in_traffic_zone", "in_odd_even_zone"} :
                result[c].val[name] = body[c].o[name].b

\* An address with no neighbourhood and no municipality_zone but an empty
\* place has been returned.
C9_Witness ==
    \E c \in Calls :
        /\ Answered(c, "reverse_geocode")
        /\ status[c] = 200
        /\ IsAddressObject(body[c])
        /\ DOMAIN body[c].o = RequiredAddressFields \cup {"place"}
        /\ result[c].ok
        /\ result[c].val.neighbourhood = None
        /\ result[c].val.place = Some("")

(***************************************************************************)
(* C10: the status alone selects the branch: a success value is returned   *)
(* only on a success status, and a service error only on a status that is  *)
(* no success, whatever the body is.                                       *)
(***************************************************************************)
C10_StatusSelectsBranch ==
    \A c \in Calls :
        pc[c] = "done" =>
            /\ result[c].ok => HttpSuccess(status[c])
            /\ result[c].err = "service" => body[c] # NoBody /\ ~HttpSuccess(status[c])

\* A body that is a routes object and an error object at once has come with
\* a status that is no success, and was not returned as Ok.
C10_Witness ==
    \E c \in Calls :
        /\ Answered(c, "route")
        /\ ~HttpSuccess(status[c])
        /\ IsRoutesObject(body[c])
        /\ IsErrorObject(body[c])
        /\ result[c].err = "service"

(***************************************************************************)
(* C6: Client::new with a key that cannot be a header value (one with a    *)
(* newline, say) fails at construction every time, no Client exists        *)
(* afterwards, and no request is ever sent with such a key.                *)
(***************************************************************************)

\* The key has a control character other than a tab.
HasForbiddenByte(key) ==
    \E i \in 1..Len(key) : key[i] \in ((0..31) \ {9}) \cup {127}

C6_InvalidKeyFails ==
    /\ lastNew.outcome # "none" /\ HasForbiddenByte(lastNew.key) =>
          lastNew.outcome = "panicked"
    /\ client.built => ~HasForbiddenByte(client.api_key)
    /\ \A c \in Calls : pc[c] # "idle" => ~HasForbiddenByte(req[c].api_key)

\* Client::new has just been called with a key that has a newline.
C6_Witness ==
    /\ lastNew.outcome = "panicked"
    /\ \E i \in 1..Len(lastNew.key) : lastNew.key[i] = 10
    /\ ~client.built
    /\ \A c \in Calls : pc[c] = "idle"

(***************************************************************************)
(* C7: an invocation of route or reverse_geocode sends exactly one GET and *)
(* never a second one; after a transport failure, a non-success status or  *)
(* a decoding failure it returns the failure, with no retry and no         *)
(* fallback value.                                                         *)
(***************************************************************************)
C7_OneGetNoRetry ==
    \A c \in Calls :
        /\ pc[c] = "idle" => gets[c] = 0
        /\ pc[c] # "idle" => gets[c] = 1 /\ req[c].method = "GET"
        /\ pc[c] = "done" =>
              /\ result[c] # NoResult
              /\ body[c] = NoBody => result[c] = ErrTransport
              /\ body[c] # NoBody /\ ~HttpSuccess(status[c]) => ~result[c].ok
              /\ body[c].t = "malformed" => ~result[c].ok

\* One call has returned a transport failure and another a decoding failure,
\* each after a single GET.
C7_Witness ==
    \E c, d \in Calls :
        /\ pc[c] = "done" /\ result[c].err = "transport" /\ gets[c] = 1
        /\ pc[d] = "done" /\ result[d].err = "decode" /\ gets[d] = 1

(***************************************************************************)
(* C8: calls that share the Client do not hold each other up, and the      *)
(* result of a call is determined by its own arguments and its own         *)
(* response only.                                                          *)
(***************************************************************************)

\* Every step that call c would have at its place, were it the only call,
\* can be taken now.
Unhindered(c) ==
    /\ pc[c] = "idle" =>
          /\ \A a \in SomeRouteArgs : ENABLED Route(c, a)
          /\ \A a \in SomeReverseArgs : ENABLED ReverseGeocode(c, a)
    /\ pc[c] = "send" =>
          /\ ENABLED SendErr(c)
          /\ \A s \in SomeStatuses : ENABLED SendOk(c, s)
    /\ pc[c] = "body" /\ op[c] = "route" =>
          \A b \in SomeBodies : ENABLED RouteBody(c, b)
    /\ pc[c] = "body" /\ op[c] = "reverse_geocode" =>
          \A b \in SomeBodies : ENABLED ReverseGeocodeBody(c, b)
    /\ pc[c] = "done" => ENABLED Return(c)

Suspended(c) == pc[c] \in {"send", "body"}

SameResult(r1, r2) ==
    /\ r1.ok = r2.ok
    /\ r1.err = r2.err
    /\ r1.err \in {"none", "service"} => r1.val = r2.val

C8_CallsIndependent ==
    \A c, d \in Calls :
        c # d =>
            \* a call suspended on its round trip leaves the other one free
            /\ Suspended(c) => Unhindered(d)
            \* the same operation with the same arguments sends the same
            \* request
            /\ Sent(c, op[c]) /\ Sent(d, op[c]) /\ args[c] = args[d] =>
                  req[c] = req[d]
            \* the same response to the same operation gives the same result
            /\ /\ pc[c] = "done" /\ pc[d] = "done"
               /\ op[c] = op[d]
               /\ status[c] = status[d]
               /\ body[c] = body[d]
               => SameResult(result[c], result[d])

\* While one call is suspended on send(), another one has gone all the way
\* to a successful return.
C8_Witness ==
    \E c, d \in Calls :
        /\ c # d
        /\ pc[c] = "send"
        /\ pc[d] = "done" /\ result[d].ok
        /\ op[c] = op[d]

====
